---- MODULE Spec2Model ----
(***************************************************************************)
(* Model of pr_reviewer_agent.py: a pull-request reviewer that fetches a   *)
(* diff (get_pr_diff), asks a hosted model for a summary                    *)
(* (analyze_code_changes) and posts it as a comment (post_comment_on_pr).   *)
(*                                                                         *)
(* Conventions.                                                            *)
(*  - An optional Python value (os.getenv result, Optional[str] return) is  *)
(*    the empty tuple for None and a one-element tuple <<v>> otherwise.     *)
(*  - PR_NUMBER is kept as a sequence of one-character strings so that      *)
(*    int() can be modelled by what it does.                                *)
(*  - The robot emoji in the literals of the source is written <U+1F916>   *)
(*    and the three-backquote code fence of the prompt is written <FENCE>. *)
(*  - Outcomes of the three external calls are nondeterministic inputs.     *)
(***************************************************************************)
EXTENDS Integers, Sequences, FiniteSets, TLC

VARIABLES env, pc, pr_number_int, diff_content, ai_review, final_comment,
          success, net, out, get_resp, llm_resp, post_resp

vars == <<env, pc, pr_number_int, diff_content, ai_review, final_comment,
          success, net, out, get_resp, llm_resp, post_resp>>

----------------------------------------------------------------------------
(* Bounds *)

\* longest PR_NUMBER environment string that is enumerated
MaxPrLen == 2

----------------------------------------------------------------------------
(* Python values *)

None == <<>>

Some(v) == <<v>>

\* truthiness of an Optional[str]: None and "" are falsy
TruthyStr(o) == o # None /\ o[1] # ""

\* f-string formatting of an Optional[str]
Fmt(o) == IF o = None THEN "None" ELSE o[1]

----------------------------------------------------------------------------
(* int(PR_NUMBER) and str(int) *)

DigitChars == {"0", "1", "2", "3", "4", "5", "6", "7", "8", "9"}

DigitVal(c) ==
    CASE c = "0" -> 0 [] c = "1" -> 1 [] c = "2" -> 2 [] c = "3" -> 3
      [] c = "4" -> 4 [] c = "5" -> 5 [] c = "6" -> 6 [] c = "7" -> 7
      [] c = "8" -> 8 [] c = "9" -> 9

DigitStr(d) ==
    CASE d = 0 -> "0" [] d = 1 -> "1" [] d = 2 -> "2" [] d = 3 -> "3"
      [] d = 4 -> "4" [] d = 5 -> "5" [] d = 6 -> "6" [] d = 7 -> "7"
      [] d = 8 -> "8" [] d = 9 -> "9"

RECURSIVE StripLeft(_)
StripLeft(s) == IF s # <<>> /\ s[1] = " " THEN StripLeft(Tail(s)) ELSE s

RECURSIVE StripRight(_)
StripRight(s) ==
    IF s # <<>> /\ s[Len(s)] = " "
    THEN StripRight(SubSeq(s, 1, Len(s) - 1))
    ELSE s

\* int() ignores surrounding whitespace
Strip(s) == StripRight(StripLeft(s))

\* the part of a stripped literal after an optional sign
Unsigned(t) == IF t # <<>> /\ t[1] \in {"-", "+"} THEN Tail(t) ELSE t

\* int(s) succeeds for a str: optional sign, then at least one digit
IntLiteralOk(s) ==
    LET u == Unsigned(Strip(s))
    IN  u # <<>> /\ \A i \in 1..Len(u) : u[i] \in DigitChars

RECURSIVE DigitsValue(_)
DigitsValue(u) ==
    IF u = <<>> THEN 0
    ELSE 10 * DigitsValue(SubSeq(u, 1, Len(u) - 1)) + DigitVal(u[Len(u)])

IntLiteralValue(s) ==
    LET t == Strip(s)
        m == DigitsValue(Unsigned(t))
    IN  IF t[1] = "-" THEN 0 - m ELSE m

\* int(PR_NUMBER): TypeError for None, ValueError for a non-literal
IntOf(v) ==
    IF v = None THEN [exc |-> "TypeError", val |-> 0]
    ELSE IF ~IntLiteralOk(v[1]) THEN [exc |-> "ValueError", val |-> 0]
    ELSE [exc |-> "", val |-> IntLiteralValue(v[1])]

RECURSIVE NatToStr(_)
NatToStr(n) ==
    IF n < 10 THEN DigitStr(n) ELSE NatToStr(n \div 10) \o DigitStr(n % 10)

\* str(n) as used by the f-strings that build the URLs
IntToStr(n) == IF n < 0 THEN "-" \o NatToStr(0 - n) ELSE NatToStr(n)

----------------------------------------------------------------------------
(* Literals of the source *)

GEMINI_MODEL == "gemini-1.5-flash"

API_ROOT == "https://api.github.com/repos/"

ACCEPT_DIFF == "application/vnd.github.v3.diff"

ACCEPT_JSON == "application/vnd.github.v3+json"

REVIEW_HEADER == "### <U+1F916> Aegis AI Review\n\n"

KEY_NOT_SET == "Cannot analyze code because GEMINI_API_KEY is not set."

ANALYSIS_ERROR == "An error occurred while analyzing the code. Please check the logs."

PROMPT_HEAD ==
    "\n    You are an expert code reviewer. Your goal is to provide a brief, "
    \o "helpful summary of the changes in this pull request.\n"
    \o "    Please analyze the following code diff and provide a high-level "
    \o "summary in a few bullet points.\n"
    \o "    Code Diff:\n    <FENCE>diff\n    "

PROMPT_TAIL == "\n    <FENCE>\n    Your review:\n    "

----------------------------------------------------------------------------
(* The HTTP client library *)

\* Response.raise_for_status raises HTTPError for 4xx and 5xx only
RaisesForStatus(status) == 400 <= status /\ status < 600

Is2xx(status) == 200 <= status /\ status < 300

\* reading html_url off response.json raises unless the body is a JSON object
JsonGetRaises(json) == json \notin {"object_with_html_url", "object_without_html_url"}

\* one issued network call
Request(method, url, accept, token, body) ==
    [method |-> method, url |-> url, accept |-> accept,
     auth |-> "Bearer " \o Fmt(token), body |-> body]

----------------------------------------------------------------------------
(* get_pr_diff and post_comment_on_pr *)

\* mutant: the credential is left out of the presence check
MissingInfoNoToken(owner, repo, pr_number, token) ==
    ~(TruthyStr(owner) /\ TruthyStr(repo) /\ pr_number # 0)

\* not all([owner, repo, pr_number, GITHUB_TOKEN])
MissingInfo(owner, repo, pr_number, token) ==
    ~(TruthyStr(owner) /\ TruthyStr(repo) /\ pr_number # 0 /\ TruthyStr(token))

PullUrl(owner, repo, pr_number) ==
    API_ROOT \o Fmt(owner) \o "/" \o Fmt(repo) \o "/pulls/" \o IntToStr(pr_number)

\* mutant: the comment goes to the pulls resource
CommentsUrlPulls(owner, repo, pr_number) ==
    API_ROOT \o Fmt(owner) \o "/" \o Fmt(repo) \o "/pulls/"
        \o IntToStr(pr_number) \o "/comments"

CommentsUrl(owner, repo, pr_number) ==
    API_ROOT \o Fmt(owner) \o "/" \o Fmt(repo) \o "/issues/"
        \o IntToStr(pr_number) \o "/comments"

\* get_pr_diff(owner, repo, pr_number) with the global GITHUB_TOKEN and the
\* outcome resp of requests.get; ret is the returned Optional[str]
GetPrDiff(owner, repo, pr_number, token, resp) ==
    IF MissingInfo(owner, repo, pr_number, token)
    THEN [ret |-> None, net |-> <<>>,
          out |-> <<"Missing required info for fetching diff.">>]
    ELSE LET req == Request("GET", PullUrl(owner, repo, pr_number),
                            ACCEPT_DIFF, token, "")
         IN  IF resp.exc
             THEN [ret |-> None, net |-> <<req>>,
                   out |-> <<"An other error occurred while fetching diff">>]
             ELSE IF RaisesForStatus(resp.status)
             THEN [ret |-> None, net |-> <<req>>,
                   out |-> <<"HTTP error occurred while fetching diff",
                             "   Response body: " \o resp.text>>]
             ELSE [ret |-> Some(resp.text), net |-> <<req>>,
                   out |-> <<"Successfully fetched diff for PR #"
                                 \o IntToStr(pr_number) \o ".">>]

\* post_comment_on_pr(owner, repo, pr_number, comment_body) with the global
\* GITHUB_TOKEN and the outcome resp of requests.post; ret is the bool
PostCommentOnPr(owner, repo, pr_number, comment_body, token, resp) ==
    IF MissingInfo(owner, repo, pr_number, token)
    THEN [ret |-> FALSE, net |-> <<>>,
          out |-> <<"Missing required info for posting comment.">>]
    ELSE LET req == Request("POST", CommentsUrl(owner, repo, pr_number),
                            ACCEPT_JSON, token, comment_body)
         IN  IF resp.exc
             THEN [ret |-> FALSE, net |-> <<req>>,
                   out |-> <<"An other error occurred while posting comment">>]
             ELSE IF RaisesForStatus(resp.status)
             THEN [ret |-> FALSE, net |-> <<req>>,
                   out |-> <<"HTTP error occurred while posting comment",
                             "   Response body">>]
             ELSE IF JsonGetRaises(resp.json)
             THEN [ret |-> FALSE, net |-> <<req>>,
                   out |-> <<"Successfully posted AI review comment on PR #"
                                 \o IntToStr(pr_number) \o ".",
                             "An other error occurred while posting comment">>]
             ELSE [ret |-> TRUE, net |-> <<req>>,
                   out |-> <<"Successfully posted AI review comment on PR #"
                                 \o IntToStr(pr_number) \o ".",
                             "   View it here: " \o resp.json>>]

----------------------------------------------------------------------------
(* analyze_code_changes *)

\* mutant: only an unset key counts as missing
KeyMissingOnlyNone(key) == key = None

\* not GEMINI_API_KEY
KeyMissing(key) == ~TruthyStr(key)

Prompt(diff) == PROMPT_HEAD \o diff \o PROMPT_TAIL

\* mutant: the handler hands back the message of the exception
AnalyzeOnExceptionMsg(msg) == msg

\* except Exception as e: what the handler returns
AnalyzeOnException(msg) == ANALYSIS_ERROR

\* analyze_code_changes(diff) with the global GEMINI_API_KEY and the outcome
\* llm of the model client; raised names an exception that leaves the
\* function ("" when it returns), ret is the returned str
AnalyzeCodeChanges(diff, key, llm) ==
    IF KeyMissing(key)
    THEN [raised |-> "", ret |-> KEY_NOT_SET, net |-> <<>>, out |-> <<>>]
    ELSE LET banner == "Analyzing diff with Gemini model: " \o GEMINI_MODEL \o "..."
             req    == Request("INVOKE", GEMINI_MODEL, "", key, Prompt(diff))
         IN  IF llm.ctor_raises
             THEN [raised |-> llm.msg, ret |-> "", net |-> <<>>,
                   out |-> <<banner>>]
             ELSE IF llm.invoke_raises
             THEN [raised |-> "", ret |-> AnalyzeOnException(llm.msg),
                   net |-> <<req>>,
                   out |-> <<banner,
                             "An error occurred during AI analysis: " \o llm.msg>>]
             ELSE [raised |-> "", ret |-> llm.content, net |-> <<req>>,
                   out |-> <<banner, "AI analysis complete.">>]

----------------------------------------------------------------------------
(* main: the steps between its calls *)

\* mutant: the handler of main catches ValueError only
CaughtByMainValueOnly(exc) == exc = "ValueError"

\* except (ValueError, TypeError) around int(PR_NUMBER)
CaughtByMain(exc) == exc \in {"ValueError", "TypeError"}

\* mutant: the comment is the bare analysis
FinalCommentBare(review) == review

\* final_comment = f"### <robot> Aegis AI Review\n\n{ai_review}"
FinalComment(review) == REVIEW_HEADER \o review

\* mutant: a failed fetch is tried again
MainAfterFetchRetry(diff) == IF TruthyStr(diff) THEN "analyze" ELSE "fetch"

\* if diff_content: ... else: the fetch failed and main ends
MainAfterFetch(diff) == IF TruthyStr(diff) THEN "analyze" ELSE "done"

RECURSIVE Join(_)
Join(s) == IF s = <<>> THEN "" ELSE s[1] \o Join(Tail(s))

\* str() of the raw PR_NUMBER value inside an f-string
FmtPr(v) == IF v = None THEN "None" ELSE Join(v[1])

\* the prints executed when the module is loaded
ImportLog(e) ==
    <<"--- Initializing AI Reviewer ---",
      "Repository: " \o Fmt(e.REPO_OWNER) \o "/" \o Fmt(e.REPO_NAME),
      "Pull Request #: " \o FmtPr(e.PR_NUMBER),
      IF ~TruthyStr(e.GITHUB_TOKEN)
      THEN "GITHUB_TOKEN environment variable is not set!"
      ELSE "GITHUB_TOKEN found.",
      IF ~TruthyStr(e.GEMINI_API_KEY)
      THEN "GEMINI_API_KEY environment variable is not set!"
      ELSE "GEMINI_API_KEY found.">>

----------------------------------------------------------------------------
(* Inputs: the environment and the outcomes of the external calls *)

PrChars == {"0", "7", "-", " ", "x"}

PrStrings == UNION {[1..n -> PrChars] : n \in 0..MaxPrLen}

PrNumberValues == {None} \cup {Some(s) : s \in PrStrings}

\* the integers int(PR_NUMBER) can produce within the bound
PrInts == {IntLiteralValue(s) : s \in {t \in PrStrings : IntLiteralOk(t)}}

OptStrs(v) == {None, Some(""), Some(v)}

DIFF_SAMPLE == "diff --git a/x b/x\n+line\n"

Envs ==
    [GITHUB_TOKEN : OptStrs("ghp_token"), GEMINI_API_KEY : OptStrs("gm_key"),
     REPO_OWNER : OptStrs("acme"), REPO_NAME : OptStrs("widgets"),
     PR_NUMBER : PrNumberValues]

Statuses == {200, 204, 300, 404, 503}

NoStatus == 0 - 1

\* requests.get either raises a transport exception or answers
GetResponses ==
    {[exc |-> TRUE, status |-> NoStatus, text |-> ""]}
        \cup [exc : {FALSE}, status : Statuses, text : {"", DIFF_SAMPLE}]

JsonKinds ==
    {"object_with_html_url", "object_without_html_url", "array", "not_json"}

\* requests.post either raises a transport exception or answers
PostResponses ==
    {[exc |-> TRUE, status |-> NoStatus, json |-> "not_json"]}
        \cup [exc : {FALSE}, status : Statuses, json : JsonKinds]

\* the model client: its constructor raises, invoke raises, or invoke
\* returns a response with this content
LlmOutcomes ==
    {[ctor_raises |-> TRUE, invoke_raises |-> FALSE,
      msg |-> "ValidationError: invalid client options", content |-> ""],
     [ctor_raises |-> FALSE, invoke_raises |-> TRUE,
      msg |-> "ResourceExhausted: 429 quota exceeded", content |-> ""]}
        \cup [ctor_raises : {FALSE}, invoke_raises : {FALSE}, msg : {""},
              content : {"- Adds a line", ""}]

----------------------------------------------------------------------------
(* The run of the script: module load, then main *)

Init ==
    /\ env \in Envs
    /\ pc = "start"
    /\ pr_number_int = None
    /\ diff_content = None
    /\ ai_review = None
    /\ final_comment = None
    /\ success = None
    /\ net = <<>>
    /\ out = ImportLog(env)
    /\ get_resp = None
    /\ llm_resp = None
    /\ post_resp = None

\* main, lines 112-119: int(PR_NUMBER)
MainParse ==
    /\ pc = "start"
    /\ LET r      == IntOf(env.PR_NUMBER)
           banner == "--- Running AI Pull Request Reviewer (Analysis Phase) ---"
       IN  IF r.exc = ""
           THEN /\ pr_number_int' = Some(r.val)
                /\ pc' = "fetch"
                /\ out' = Append(out, banner)
           ELSE IF CaughtByMain(r.exc)
           THEN /\ pc' = "done"
                /\ out' = out \o <<banner,
                              "Invalid PR_NUMBER: " \o FmtPr(env.PR_NUMBER)
                                  \o ". Must be an integer.">>
                /\ UNCHANGED pr_number_int
           ELSE /\ pc' = "raised"
                /\ out' = Append(out, banner)
                /\ UNCHANGED pr_number_int
    /\ UNCHANGED <<env, diff_content, ai_review, final_comment, success, net,
                   get_resp, llm_resp, post_resp>>

\* main, lines 121-123 and 133-134: the call of get_pr_diff
MainFetch ==
    /\ pc = "fetch"
    /\ \E resp \in GetResponses :
         LET r == GetPrDiff(env.REPO_OWNER, env.REPO_NAME, pr_number_int[1],
                            env.GITHUB_TOKEN, resp)
         IN  /\ diff_content' = r.ret
             /\ net' = net \o r.net
             /\ get_resp' = IF r.net = <<>> THEN None ELSE Some(resp)
             /\ pc' = MainAfterFetch(r.ret)
             /\ out' = IF TruthyStr(r.ret) THEN out \o r.out
                       ELSE out \o r.out \o
                            <<"--- Fetching diff failed. Cannot proceed with review. ---">>
    /\ UNCHANGED <<env, pr_number_int, ai_review, final_comment, success,
                   llm_resp, post_resp>>

\* main, lines 124-125: the call of analyze_code_changes
MainAnalyze ==
    /\ pc = "analyze"
    /\ \E llm \in LlmOutcomes :
         LET r == AnalyzeCodeChanges(diff_content[1], env.GEMINI_API_KEY, llm)
         IN  /\ net' = net \o r.net
             /\ out' = out \o r.out
             /\ llm_resp' = IF r.out = <<>> THEN None ELSE Some(llm)
             /\ IF r.raised # ""
                THEN /\ pc' = "raised"
                     /\ UNCHANGED <<ai_review, final_comment>>
                ELSE /\ pc' = "post"
                     /\ ai_review' = Some(r.ret)
                     /\ final_comment' = Some(FinalComment(r.ret))
    /\ UNCHANGED <<env, pr_number_int, diff_content, success, get_resp,
                   post_resp>>

\* main, lines 127-132: the call of post_comment_on_pr
MainPost ==
    /\ pc = "post"
    /\ \E resp \in PostResponses :
         LET r == PostCommentOnPr(env.REPO_OWNER, env.REPO_NAME,
                                  pr_number_int[1], final_comment[1],
                                  env.GITHUB_TOKEN, resp)
         IN  /\ success' = Some(r.ret)
             /\ net' = net \o r.net
             /\ post_resp' = IF r.net = <<>> THEN None ELSE Some(resp)
             /\ out' = out \o r.out \o
                       <<IF r.ret THEN "--- AI Review complete. ---"
                         ELSE "--- Posting AI review failed. ---">>
             /\ pc' = "done"
    /\ UNCHANGED <<env, pr_number_int, diff_content, ai_review, final_comment,
                   get_resp, llm_resp>>

Next == MainParse \/ MainFetch \/ MainAnalyze \/ MainPost

Spec == Init /\ [][Next]_vars

\* main runs to its end: the script is sequential and nothing preempts it
FairSpec == Spec /\ WF_vars(Next)

----------------------------------------------------------------------------
(* The three functions called on their own, with arguments and module     *)
(* globals drawn from the input sets                                       *)

InitFn ==
    /\ env \in {e \in Envs : e.PR_NUMBER = None}
    /\ pc = "call"
    /\ pr_number_int \in {Some(n) : n \in PrInts}
    /\ diff_content \in {Some(""), Some(DIFF_SAMPLE)}
    /\ ai_review = None
    /\ final_comment \in {Some(""), Some(FinalComment("- Adds a line"))}
    /\ success = None
    /\ net = <<>>
    /\ out = ImportLog(env)
    /\ get_resp = None
    /\ llm_resp = None
    /\ post_resp = None

\* get_pr_diff(owner, repo, pr_number)
CallGetPrDiff ==
    /\ pc = "call"
    /\ \E resp \in GetResponses :
         LET r == GetPrDiff(env.REPO_OWNER, env.REPO_NAME, pr_number_int[1],
                            env.GITHUB_TOKEN, resp)
         IN  /\ diff_content' = r.ret
             /\ net' = net \o r.net
             /\ out' = out \o r.out
             /\ get_resp' = IF r.net = <<>> THEN None ELSE Some(resp)
    /\ pc' = "ret_get_pr_diff"
    /\ UNCHANGED <<env, pr_number_int, ai_review, final_comment, success,
                   llm_resp, post_resp>>

\* post_comment_on_pr(owner, repo, pr_number, comment_body)
CallPostCommentOnPr ==
    /\ pc = "call"
    /\ \E resp \in PostResponses :
         LET r == PostCommentOnPr(env.REPO_OWNER, env.REPO_NAME,
                                  pr_number_int[1], final_comment[1],
                                  env.GITHUB_TOKEN, resp)
         IN  /\ success' = Some(r.ret)
             /\ net' = net \o r.net
             /\ out' = out \o r.out
             /\ post_resp' = IF r.net = <<>> THEN None ELSE Some(resp)
    /\ pc' = "ret_post_comment_on_pr"
    /\ UNCHANGED <<env, pr_number_int, diff_content, ai_review, final_comment,
                   get_resp, llm_resp>>

\* analyze_code_changes(diff)
CallAnalyzeCodeChanges ==
    /\ pc = "call"
    /\ \E llm \in LlmOutcomes :
         LET r == AnalyzeCodeChanges(diff_content[1], env.GEMINI_API_KEY, llm)
         IN  /\ net' = net \o r.net
             /\ out' = out \o r.out
             /\ llm_resp' = IF r.out = <<>> THEN None ELSE Some(llm)
             /\ IF r.raised # ""
                THEN pc' = "raised" /\ UNCHANGED ai_review
                ELSE pc' = "ret_analyze_code_changes" /\ ai_review' = Some(r.ret)
    /\ UNCHANGED <<env, pr_number_int, diff_content, final_comment, success,
                   get_resp, post_resp>>

NextFn == CallGetPrDiff \/ CallPostCommentOnPr \/ CallAnalyzeCodeChanges

SpecFn == InitFn /\ [][NextFn]_vars

----------------------------------------------------------------------------
(* Properties *)

\* the methods of the network calls issued so far, in order
Methods == [i \in 1..Len(net) |-> net[i].method]

Issued(method) == \E i \in 1..Len(net) : net[i].method = method

TokenMissing == env.GITHUB_TOKEN = None \/ env.GITHUB_TOKEN = Some("")

\* C1: with GITHUB_TOKEN unset or empty, get_pr_diff returns None and
\* post_comment_on_pr returns False, and neither issues an HTTP request,
\* whatever owner, repository and PR number are.
C1_MissingTokenNoRequest ==
    TokenMissing =>
        /\ pc = "ret_get_pr_diff" => diff_content = None /\ net = <<>>
        /\ pc = "ret_post_comment_on_pr" => success = Some(FALSE) /\ net = <<>>

C1_Witness ==
    /\ pc = "ret_post_comment_on_pr"
    /\ env.GITHUB_TOKEN = Some("")
    /\ env.REPO_OWNER = Some("acme")
    /\ env.REPO_NAME = Some("widgets")
    /\ pr_number_int = Some(7)
    /\ success = Some(FALSE)

\* C2: when the diff GET answers with a non-2xx status, get_pr_diff returns
\* None and the run ends without a model invocation and without a POST.
C2_Non2xxFetchEndsRun ==
    (get_resp # None /\ ~get_resp[1].exc /\ ~Is2xx(get_resp[1].status)) =>
        /\ diff_content = None
        /\ pc = "done"
        /\ ~Issued("INVOKE")
        /\ ~Issued("POST")

\* C3: when PR_NUMBER is unset or does not parse as an integer, main returns
\* after logging the Invalid PR_NUMBER diagnostic and no network call of
\* any kind is made in the run.
C3_BadPrNumberNoNetwork ==
    (pc # "start" /\ (env.PR_NUMBER = None \/ ~IntLiteralOk(env.PR_NUMBER[1]))) =>
        /\ pc = "done"
        /\ net = <<>>
        /\ get_resp = None /\ llm_resp = None /\ post_resp = None
        /\ out[Len(out)] = "Invalid PR_NUMBER: " \o FmtPr(env.PR_NUMBER)
                               \o ". Must be an integer."

C3_Witness == pc = "done" /\ env.PR_NUMBER = None /\ net = <<>>

\* C4: when the model invocation raises inside analyze_code_changes (key
\* set), the function returns exactly the fixed analysis-error string, not
\* the message of the exception, and the exception does not propagate.
C4_InvokeErrorFallback ==
    (llm_resp # None /\ llm_resp[1].invoke_raises) =>
        /\ pc = "ret_analyze_code_changes"
        /\ ai_review =
             Some("An error occurred while analyzing the code. Please check the logs.")
        /\ ai_review # Some(llm_resp[1].msg)

C4_Witness ==
    /\ pc = "ret_analyze_code_changes"
    /\ llm_resp # None
    /\ llm_resp[1].invoke_raises
    /\ TruthyStr(env.GEMINI_API_KEY)
    /\ Issued("INVOKE")

\* the model returned text: the client was built and invoke did not raise
ModelReturned ==
    llm_resp # None /\ ~llm_resp[1].ctor_raises /\ ~llm_resp[1].invoke_raises

\* C5: with both credentials present, when the fetch succeeds with a
\* non-empty diff and the model returns text r, the publisher is invoked
\* with the body header + r and POSTs it to
\* https://api.github.com/repos/{owner}/{repo}/issues/{pr}/comments of the
\* same identity.
C5_ReviewPublished ==
    (TruthyStr(env.GITHUB_TOKEN) /\ TruthyStr(env.GEMINI_API_KEY)
        /\ TruthyStr(diff_content) /\ ModelReturned) =>
        LET body == "### <U+1F916> Aegis AI Review\n\n" \o llm_resp[1].content
        IN  /\ pc \in {"post", "done"}
            /\ final_comment = Some(body)
            /\ pc = "done" =>
                 /\ success # None
                 /\ Methods = <<"GET", "INVOKE", "POST">>
                 /\ net[3].body = body
                 /\ net[3].url = "https://api.github.com/repos/"
                        \o env.REPO_OWNER[1] \o "/" \o env.REPO_NAME[1]
                        \o "/issues/" \o IntToStr(pr_number_int[1]) \o "/comments"
                 /\ pr_number_int = Some(7) =>
                      net[3].url =
                        "https://api.github.com/repos/acme/widgets/issues/7/comments"

C5_Witness ==
    /\ pc = "done"
    /\ success = Some(TRUE)
    /\ pr_number_int = Some(7)
    /\ diff_content = Some(DIFF_SAMPLE)
    /\ ModelReturned
    /\ final_comment = Some("### <U+1F916> Aegis AI Review\n\n- Adds a line")

\* C6: when the fetch succeeds with a non-empty diff and GEMINI_API_KEY is
\* absent, the model is never invoked and the body handed to the publisher
\* is exactly the header followed by the key-not-set text.
C6_NoKeyFixedComment ==
    (TruthyStr(diff_content)
        /\ (env.GEMINI_API_KEY = None \/ env.GEMINI_API_KEY = Some(""))) =>
        /\ ~Issued("INVOKE")
        /\ llm_resp = None
        /\ pc \in {"analyze", "post", "done"}
        /\ pc \in {"post", "done"} =>
             final_comment =
               Some("### <U+1F916> Aegis AI Review\n\nCannot analyze code because GEMINI_API_KEY is not set.")
        /\ pc = "done" =>
             /\ success # None
             /\ post_resp # None =>
                  net[Len(net)].body =
                    "### <U+1F916> Aegis AI Review\n\nCannot analyze code because GEMINI_API_KEY is not set."

C6_Witness ==
    /\ pc = "done"
    /\ env.GEMINI_API_KEY = Some("")
    /\ TruthyStr(diff_content)
    /\ post_resp # None
    /\ success = Some(TRUE)

InvokeRaised == llm_resp # None /\ llm_resp[1].invoke_raises

PublisherInvoked == pc = "done" /\ success # None /\ Issued("POST")

\* C7: when the fetch succeeds and the model invocation then raises, the
\* pipeline does not abort: the publisher is invoked afterwards with the
\* review header followed by the fixed analysis-error string as the body.
C7_ErrorTextPosted ==
    /\ [](InvokeRaised =>
            /\ pc \in {"post", "done"}
            /\ final_comment =
                 Some("### <U+1F916> Aegis AI Review\n\nAn error occurred while analyzing the code. Please check the logs.")
            /\ pc = "done" =>
                 net[Len(net)].method = "POST" /\ net[Len(net)].body = final_comment[1])
    /\ (InvokeRaised ~> PublisherInvoked)

C7_Witness ==
    /\ InvokeRaised
    /\ PublisherInvoked
    /\ success = Some(TRUE)
    /\ get_resp # None
    /\ Is2xx(get_resp[1].status)

\* C8: post_comment_on_pr returns False exactly when an identity field or
\* the credential is missing, the POST is answered with a non-2xx status,
\* or the transport raises; a POST answered with 2xx returns True.
C8_PostResultMatchesContract ==
    pc = "ret_post_comment_on_pr" =>
        (success = Some(FALSE) <=>
            \/ post_resp = None
            \/ post_resp[1].exc
            \/ ~Is2xx(post_resp[1].status))

\* C9: whatever the configuration and the outcomes of the external calls,
\* including an exception while the model client is constructed, no
\* exception escapes main.
C9_NoExceptionEscapes == pc # "raised"

====
